---- MODULE Spec2Model ----
(***************************************************************************)
(* Pigment colour spaces (src/src/colorspace.ts, src/src/gamma.ts).        *)
(*                                                                         *)
(* Every conversion is a pure function of a colour record.  A number is    *)
(* modelled exactly:                                                       *)
(*   - a rational n/d               [n, d, en |-> 1, ed |-> 1],  d > 0     *)
(*   - NaN                          d = 0                                  *)
(*   - a power (n/d)^(en/ed)        n/d > 0, n/d # 1, en/ed > 0, # 1       *)
(* Powers appear only as results of Math.pow with a non-integer exponent;  *)
(* they are compared with 0 and 1 and raised to further powers, which is   *)
(* all the code does with them on the paths modelled here.  Arithmetic is  *)
(* the arithmetic of the reals: floating-point rounding is not modelled.   *)
(***************************************************************************)
EXTENDS Integers, Sequences, FiniteSets, TLC

VARIABLES space, method, arg, result, pc

vars == <<space, method, arg, result, pc>>

---------------------------------------------------------------------------
(* Bounds of the input grid *)

\* channel values are the multiples of 1/GridDen in [-1/GridDen, 2]
GridDen == 2

\* hue values are the multiples of 30 degrees in [-30*HueSteps, 30*HueSteps]
HueSteps == 13

---------------------------------------------------------------------------
(* Numbers *)

RECURSIVE Gcd(_, _)
Gcd(a, b) == IF b = 0 THEN a ELSE Gcd(b, a % b)

AbsInt(a) == IF a < 0 THEN -a ELSE a

Rat(n, d) ==
    LET s == IF d < 0 THEN -1 ELSE 1
        g == Gcd(AbsInt(n), AbsInt(d))
    IN  [n |-> (s * n) \div g, d |-> (s * d) \div g, en |-> 1, ed |-> 1]

Num(n) == [n |-> n, d |-> 1, en |-> 1, ed |-> 1]

Zero == Num(0)
One == Num(1)
Half == Rat(1, 2)

NaN == [n |-> 0, d |-> 0, en |-> 1, ed |-> 1]

IsNaN(x) == x.d = 0
IsRat(x) == x.d # 0 /\ x.en = 1 /\ x.ed = 1
IsPow(x) == x.d # 0 /\ ~(x.en = 1 /\ x.ed = 1)

\* reading a property: a missing property is undefined, which every
\* arithmetic operation and comparison treats as NaN
Get(c, f) == IF f \in DOMAIN c THEN c[f] ELSE NaN

\* x < y; any comparison with NaN is false
Lt(x, y) ==
    CASE IsNaN(x) \/ IsNaN(y) -> FALSE
      [] IsRat(x) /\ IsRat(y) -> x.n * y.d < y.n * x.d
      [] IsPow(x) /\ IsRat(y) /\ y.n <= 0 -> FALSE
      [] IsPow(x) /\ y = One -> x.n < x.d
      [] IsRat(x) /\ x.n <= 0 /\ IsPow(y) -> TRUE
      [] x = One /\ IsPow(y) -> y.n > y.d

Gt(x, y) == Lt(y, x)

Add(x, y) ==
    CASE IsNaN(x) \/ IsNaN(y) -> NaN
      [] y = Zero -> x
      [] x = Zero -> y
      [] IsRat(x) /\ IsRat(y) -> Rat(x.n * y.d + y.n * x.d, x.d * y.d)

Sub(x, y) ==
    CASE IsNaN(x) \/ IsNaN(y) -> NaN
      [] y = Zero -> x
      [] IsRat(x) /\ IsRat(y) -> Rat(x.n * y.d - y.n * x.d, x.d * y.d)

Mul(x, y) ==
    CASE IsNaN(x) \/ IsNaN(y) -> NaN
      [] x = Zero \/ y = Zero -> Zero
      [] y = One -> x
      [] x = One -> y
      [] IsRat(x) /\ IsRat(y) -> Rat(x.n * y.n, x.d * y.d)

\* the divisor is never zero where the code divides; 0/0 is NaN
Div(x, y) ==
    CASE IsNaN(x) \/ IsNaN(y) -> NaN
      [] y = One -> x
      [] IsRat(x) /\ IsRat(y) /\ y.n # 0 -> Rat(x.n * y.d, x.d * y.n)
      [] x = Zero /\ y = Zero -> NaN

\* the % operator: the remainder has the sign of the dividend
Rem(x, y) ==
    CASE IsNaN(x) \/ IsNaN(y) -> NaN
      [] IsRat(x) /\ IsRat(y) /\ y.n # 0 ->
            LET q == Rat(x.n * y.d, x.d * y.n)
                t == IF q.n < 0 THEN -((-q.n) \div q.d) ELSE q.n \div q.d
            IN  Sub(x, Mul(y, Num(t)))

\* Math.abs
abs(x) ==
    CASE IsNaN(x) -> NaN
      [] IsRat(x) -> Rat(AbsInt(x.n), x.d)
      [] IsPow(x) -> x

\* Math.max, Math.min of three arguments: NaN if any argument is NaN
max(a, b, c) ==
    IF IsNaN(a) \/ IsNaN(b) \/ IsNaN(c) THEN NaN
    ELSE LET ab == IF Lt(a, b) THEN b ELSE a
         IN  IF Lt(ab, c) THEN c ELSE ab

min(a, b, c) ==
    IF IsNaN(a) \/ IsNaN(b) \/ IsNaN(c) THEN NaN
    ELSE LET ab == IF Lt(b, a) THEN b ELSE a
         IN  IF Lt(c, ab) THEN c ELSE ab

\* Math.pow(x, f) for a positive non-integer exponent f (or f = 1):
\* NaN for a negative base, 0 for 0, 1 for 1, otherwise the power, with
\* (b^e)^f = b^(e*f)
pow(x, f) ==
    CASE IsNaN(x) \/ IsNaN(f) -> NaN
      [] IsRat(x) /\ x.n < 0 -> IF f = One THEN x ELSE NaN
      [] x = Zero -> Zero
      [] x = One -> One
      [] OTHER ->
            LET e == Rat(x.en * f.n, x.ed * f.d)
            IN  [n |-> x.n, d |-> x.d, en |-> e.n, ed |-> e.d]

---------------------------------------------------------------------------
(* gamma.ts *)

defaultDecodingGamma == Rat(22, 10)

\* variant: the encoding factor is not inverted
defaultEncodingGamma_notInverted == defaultDecodingGamma

defaultEncodingGamma == Div(One, defaultDecodingGamma)

\* createGammaFunction(factor) is the function value => pow(value, factor)
createGammaFunction(factor, value) == pow(value, factor)

---------------------------------------------------------------------------
(* colorspace.ts: the colour spaces *)

clamp(value) ==
    IF Lt(value, Zero) THEN Zero
    ELSE IF Gt(value, One) THEN One
    ELSE value

\* new ScreenColorSpace(encodeGamma, decodeGamma); a gamma function is held
\* as its factor
ScreenColorSpace(encodeGamma, decodeGamma) ==
    [kind |-> "screen", encodeGamma |-> encodeGamma, decodeGamma |-> decodeGamma]

\* new ScreenColorSpace(): both gamma functions default
DefaultScreenColorSpace ==
    ScreenColorSpace(defaultEncodingGamma, defaultDecodingGamma)

Screen_encode(cs, value) ==
    [red   |-> clamp(createGammaFunction(cs.encodeGamma, Get(value, "red"))),
     green |-> clamp(createGammaFunction(cs.encodeGamma, Get(value, "green"))),
     blue  |-> clamp(createGammaFunction(cs.encodeGamma, Get(value, "blue")))]

Screen_decode(cs, value) ==
    [red   |-> clamp(createGammaFunction(cs.decodeGamma, Get(value, "red"))),
     green |-> clamp(createGammaFunction(cs.decodeGamma, Get(value, "green"))),
     blue  |-> clamp(createGammaFunction(cs.decodeGamma, Get(value, "blue")))]

SaturatingColorSpace == [kind |-> "saturating"]

\* variant: the test value > 1.0 is missing
oversaturation_noGuard(value) == Sub(value, One)

oversaturation(value) ==
    IF Gt(value, One) THEN Sub(value, One) ELSE Zero

\* variant: each other channel receives the whole excess, not half of it
Saturating_redistribute_whole(value, redOver, greenOver, blueOver) ==
    [red   |-> clamp(Add(Sub(Get(value, "red"), redOver),
                         Add(greenOver, blueOver))),
     green |-> clamp(Add(Sub(Get(value, "green"), greenOver),
                         Add(redOver, blueOver))),
     blue  |-> clamp(Add(Sub(Get(value, "blue"), blueOver),
                         Add(redOver, greenOver)))]

\* variant: each other channel receives a quarter of the excess
Saturating_redistribute_quarter(value, redOver, greenOver, blueOver) ==
    [red   |-> clamp(Add(Sub(Get(value, "red"), redOver),
                         Mul(Add(Mul(greenOver, Half), Mul(blueOver, Half)),
                             Half))),
     green |-> clamp(Add(Sub(Get(value, "green"), greenOver),
                         Mul(Add(Mul(redOver, Half), Mul(blueOver, Half)),
                             Half))),
     blue  |-> clamp(Add(Sub(Get(value, "blue"), blueOver),
                         Mul(Add(Mul(redOver, Half), Mul(greenOver, Half)),
                             Half)))]

\* the colour returned, from the three oversaturations
Saturating_redistribute(value, redOver, greenOver, blueOver) ==
    [red   |-> clamp(Add(Sub(Get(value, "red"), redOver),
                         Add(Mul(greenOver, Half), Mul(blueOver, Half)))),
     green |-> clamp(Add(Sub(Get(value, "green"), greenOver),
                         Add(Mul(redOver, Half), Mul(blueOver, Half)))),
     blue  |-> clamp(Add(Sub(Get(value, "blue"), blueOver),
                         Add(Mul(redOver, Half), Mul(greenOver, Half))))]

Saturating_encode(value) ==
    Saturating_redistribute(value,
                            oversaturation(Get(value, "red")),
                            oversaturation(Get(value, "green")),
                            oversaturation(Get(value, "blue")))

Saturating_decode(value) == value

SimpleCmykColorSpace == [kind |-> "cmyk"]

\* red, green, blue before the key is applied, and 1 - key
SimpleCmyk_applyKey(red, green, blue, k) ==
    [red |-> Mul(red, k), green |-> Mul(green, k), blue |-> Mul(blue, k)]

SimpleCmyk_encode(reflect) ==
    SimpleCmyk_applyKey(Sub(One, clamp(Get(reflect, "cyan"))),
                        Sub(One, clamp(Get(reflect, "magenta"))),
                        Sub(One, clamp(Get(reflect, "yellow"))),
                        Sub(One, Get(reflect, "key")))

\* variant: the channels are not divided by 1 - key
SimpleCmyk_fromKey_noDivide(r, g, b, key) ==
    IF Lt(key, One)
    THEN [cyan    |-> Sub(One, r),
          magenta |-> Sub(One, g),
          yellow  |-> Sub(One, b),
          key     |-> key]
    ELSE [cyan |-> Zero, magenta |-> Zero, yellow |-> Zero, key |-> key]

\* variant: the test key < 1.0 is missing
SimpleCmyk_fromKey_noGuard(r, g, b, key) ==
    [cyan    |-> Sub(One, Div(r, Sub(One, key))),
     magenta |-> Sub(One, Div(g, Sub(One, key))),
     yellow  |-> Sub(One, Div(b, Sub(One, key))),
     key     |-> key]

\* the colour returned, from the clamped channels and the key
SimpleCmyk_fromKey(r, g, b, key) ==
    IF Lt(key, One)
    THEN [cyan    |-> Sub(One, Div(r, Sub(One, key))),
          magenta |-> Sub(One, Div(g, Sub(One, key))),
          yellow  |-> Sub(One, Div(b, Sub(One, key))),
          key     |-> key]
    ELSE [cyan |-> Zero, magenta |-> Zero, yellow |-> Zero, key |-> key]

\* variant: the key is taken from the smallest channel
SimpleCmyk_fromClamped_min(r, g, b) ==
    SimpleCmyk_fromKey(r, g, b, Sub(One, min(r, g, b)))

\* r, g, b are the clamped channels
SimpleCmyk_fromClamped(r, g, b) ==
    SimpleCmyk_fromKey(r, g, b, Sub(One, max(r, g, b)))

SimpleCmyk_decode(emit) ==
    SimpleCmyk_fromClamped(clamp(Get(emit, "red")),
                           clamp(Get(emit, "green")),
                           clamp(Get(emit, "blue")))

SimpleHsvColorSpace == [kind |-> "hsv"]

\* the pair of channels the hue sector h gives c and x to: <<ra, ga, ba>>
SimpleHsv_sector(h, c, x) ==
    IF Lt(h, Num(60))       THEN <<c, x, Zero>>
    ELSE IF Lt(h, Num(120)) THEN <<x, c, Zero>>
    ELSE IF Lt(h, Num(180)) THEN <<Zero, c, x>>
    ELSE IF Lt(h, Num(240)) THEN <<Zero, x, c>>
    ELSE IF Lt(h, Num(300)) THEN <<x, Zero, c>>
    ELSE                         <<c, Zero, x>>

\* variant: the offset m is not added
SimpleHsv_offset_none(a, m) ==
    [red |-> a[1], green |-> a[2], blue |-> a[3]]

\* the colour returned, from the sector's channels a and the offset m
SimpleHsv_offset(a, m) ==
    [red |-> Add(a[1], m), green |-> Add(a[2], m), blue |-> Add(a[3], m)]

\* x and m from h, c and v
SimpleHsv_fromChroma(h, c, v) ==
    SimpleHsv_offset(
        SimpleHsv_sector(h, c,
            Mul(c, Sub(One, abs(Sub(Rem(Div(h, Num(60)), Num(2)), One))))),
        Sub(v, c))

\* h, s, v are the normalised hue and the clamped saturation and value
SimpleHsv_fromNormalised(h, s, v) == SimpleHsv_fromChroma(h, Mul(s, v), v)

SimpleHsv_encode(hsv) ==
    SimpleHsv_fromNormalised(abs(Rem(Get(hsv, "hue"), Num(360))),
                             clamp(Get(hsv, "saturation")),
                             clamp(Get(hsv, "value")))

\* the === of two numbers: NaN equals nothing
StrictEq(x, y) == ~IsNaN(x) /\ ~IsNaN(y) /\ x = y

\* the hue, from the clamped channels, cmax and delta
SimpleHsv_hue(r, g, b, cmax, delta) ==
    IF Gt(delta, Zero)
    THEN IF StrictEq(cmax, r)
         THEN Mul(Num(60), Rem(Div(Sub(g, b), delta), Num(6)))
         ELSE IF StrictEq(cmax, g)
         THEN Mul(Num(60), Add(Div(Sub(b, r), delta), Num(2)))
         ELSE IF StrictEq(cmax, b)
         THEN Mul(Num(60), Add(Div(Sub(r, g), delta), Num(4)))
         ELSE Zero
    ELSE Zero

\* the colour returned, from the clamped channels, cmax and delta
SimpleHsv_fromDelta(r, g, b, cmax, delta) ==
    [hue        |-> SimpleHsv_hue(r, g, b, cmax, delta),
     saturation |-> IF Gt(cmax, Zero) THEN Div(delta, cmax) ELSE Zero,
     value      |-> cmax]

\* r, g, b are the clamped channels; delta = cmin - cmax
SimpleHsv_fromClamped(r, g, b) ==
    SimpleHsv_fromDelta(r, g, b, max(r, g, b),
                        Sub(min(r, g, b), max(r, g, b)))

SimpleHsv_decode(rgb) ==
    SimpleHsv_fromClamped(clamp(Get(rgb, "red")),
                          clamp(Get(rgb, "green")),
                          clamp(Get(rgb, "blue")))

---------------------------------------------------------------------------
(* colorspace.ts: composition *)

chainColorSpaces(first, second) ==
    [kind |-> "chain", first |-> first, second |-> second]

reverseColorSpace(toReverse) ==
    [kind |-> "reverse", toReverse |-> toReverse]

RECURSIVE Encode(_, _)
RECURSIVE Decode(_, _)

\* variant: the two stages are applied in the wrong order
chain_encode_swapped(first, second, value) ==
    Encode(first, Encode(second, value))

\* variant: the roles are not swapped
reverse_encode_same(toReverse, value) == Encode(toReverse, value)

\* the encode and decode closures chainColorSpaces returns
chain_encode(first, second, value) == Encode(second, Encode(first, value))

chain_decode(first, second, value) == Decode(first, Decode(second, value))

\* the encode and decode properties reverseColorSpace returns
reverse_encode(toReverse, value) == Decode(toReverse, value)

reverse_decode(toReverse, value) == Encode(toReverse, value)

\* cs.encode(value)
Encode(cs, value) ==
    CASE cs.kind = "screen"     -> Screen_encode(cs, value)
      [] cs.kind = "saturating" -> Saturating_encode(value)
      [] cs.kind = "cmyk"       -> SimpleCmyk_encode(value)
      [] cs.kind = "hsv"        -> SimpleHsv_encode(value)
      [] cs.kind = "chain"      -> chain_encode(cs.first, cs.second, value)
      [] cs.kind = "reverse"    -> reverse_encode(cs.toReverse, value)

\* cs.decode(value)
Decode(cs, value) ==
    CASE cs.kind = "screen"     -> Screen_decode(cs, value)
      [] cs.kind = "saturating" -> Saturating_decode(value)
      [] cs.kind = "cmyk"       -> SimpleCmyk_decode(value)
      [] cs.kind = "hsv"        -> SimpleHsv_decode(value)
      [] cs.kind = "chain"      -> chain_decode(cs.first, cs.second, value)
      [] cs.kind = "reverse"    -> reverse_decode(cs.toReverse, value)

defaultColorSpace ==
    chainColorSpaces(SaturatingColorSpace, DefaultScreenColorSpace)

defaultCmykColorSpace ==
    chainColorSpaces(SimpleCmykColorSpace, defaultColorSpace)

---------------------------------------------------------------------------
(* The callers: one call of encode or decode on one colour *)

Channel == {Rat(k, GridDen) : k \in (-1)..(2 * GridDen)}

Hue == {Num(30 * k) : k \in (-HueSteps)..HueSteps}

EmissiveColor == [red : Channel, green : Channel, blue : Channel]

ReflectiveColor ==
    [cyan : Channel, magenta : Channel, yellow : Channel, key : Channel]

HsvColor == [hue : Hue, saturation : Channel, value : Channel]

NoSpace == [kind |-> "none"]

NoColor == [undefined |-> TRUE]

ColorKind(c) ==
    CASE "red" \in DOMAIN c  -> "emissive"
      [] "cyan" \in DOMAIN c -> "reflective"
      [] "hue" \in DOMAIN c  -> "hsv"
      [] OTHER               -> "none"

RECURSIVE SourceKind(_)
RECURSIVE DestKind(_)

\* TSourceColor of a ColorSpace<TSourceColor, TDestColor>
SourceKind(cs) ==
    CASE cs.kind \in {"screen", "saturating"} -> "emissive"
      [] cs.kind = "cmyk"    -> "reflective"
      [] cs.kind = "hsv"     -> "hsv"
      [] cs.kind = "chain"   -> SourceKind(cs.first)
      [] cs.kind = "reverse" -> DestKind(cs.toReverse)

\* TDestColor of a ColorSpace<TSourceColor, TDestColor>
DestKind(cs) ==
    CASE cs.kind \in {"screen", "saturating", "cmyk", "hsv"} -> "emissive"
      [] cs.kind = "chain"   -> DestKind(cs.second)
      [] cs.kind = "reverse" -> SourceKind(cs.toReverse)

EmissiveSpaces == {SaturatingColorSpace, DefaultScreenColorSpace}

BaseSpaces == EmissiveSpaces \cup {SimpleCmykColorSpace, SimpleHsvColorSpace}

\* chain(chain(a, b), c) and chain(a, chain(b, c))
LeftChain(a, b, c) == chainColorSpaces(chainColorSpaces(a, b), c)

RightChain(a, b, c) == chainColorSpaces(a, chainColorSpaces(b, c))

\* three emissive spaces in either grouping, and a reflective or HSV space
\* in front of the default pipeline's two stages
EmissiveChainSpaces ==
    UNION {{LeftChain(a, b, c), RightChain(a, b, c)} :
             a \in EmissiveSpaces, b \in EmissiveSpaces, c \in EmissiveSpaces}

ChainSpaces ==
    EmissiveChainSpaces \cup
    UNION {{LeftChain(a, SaturatingColorSpace, DefaultScreenColorSpace),
            RightChain(a, SaturatingColorSpace, DefaultScreenColorSpace)} :
             a \in BaseSpaces}

\* Decoding through a chain is called where no stage has to do arithmetic on
\* a power: every stage takes emissive colours, or no stage is a screen space
DecodableChainSpaces ==
    EmissiveChainSpaces \cup
    UNION {{LeftChain(a, SaturatingColorSpace, SaturatingColorSpace),
            RightChain(a, SaturatingColorSpace, SaturatingColorSpace)} :
             a \in BaseSpaces}

ReverseSpaces ==
    UNION {{reverseColorSpace(cs), reverseColorSpace(reverseColorSpace(cs))} :
             cs \in BaseSpaces}

Init ==
    /\ arg \in EmissiveColor \cup ReflectiveColor \cup HsvColor
    /\ space = NoSpace
    /\ method = "none"
    /\ result = NoColor
    /\ pc = "ready"

\* one call cs.encode(arg) or cs.decode(arg) on a colour of the type the
\* method takes; the colour space, the method and the colour returned are
\* recorded
Call(cs, m) ==
    /\ ColorKind(arg) = (IF m = "encode" THEN SourceKind(cs) ELSE DestKind(cs))
    /\ space' = cs
    /\ method' = m
    /\ result' = (IF m = "encode" THEN Encode(cs, arg) ELSE Decode(cs, arg))
    /\ pc' = "done"
    /\ UNCHANGED arg

ScreenEncode ==
    /\ pc = "ready"
    /\ Call(DefaultScreenColorSpace, "encode")

ScreenDecode ==
    /\ pc = "ready"
    /\ Call(DefaultScreenColorSpace, "decode")

SaturatingEncode ==
    /\ pc = "ready"
    /\ Call(SaturatingColorSpace, "encode")

SaturatingDecode ==
    /\ pc = "ready"
    /\ Call(SaturatingColorSpace, "decode")

CmykEncode ==
    /\ pc = "ready"
    /\ Call(SimpleCmykColorSpace, "encode")

CmykDecode ==
    /\ pc = "ready"
    /\ Call(SimpleCmykColorSpace, "decode")

HsvEncode ==
    /\ pc = "ready"
    /\ Call(SimpleHsvColorSpace, "encode")

HsvDecode ==
    /\ pc = "ready"
    /\ Call(SimpleHsvColorSpace, "decode")

ChainEncode ==
    /\ pc = "ready"
    /\ \E cs \in ChainSpaces : Call(cs, "encode")

ChainDecode ==
    /\ pc = "ready"
    /\ \E cs \in DecodableChainSpaces : Call(cs, "decode")

ReverseEncode ==
    /\ pc = "ready"
    /\ \E cs \in ReverseSpaces : Call(cs, "encode")

ReverseDecode ==
    /\ pc = "ready"
    /\ \E cs \in ReverseSpaces : Call(cs, "decode")

DefaultEncode ==
    /\ pc = "ready"
    /\ Call(defaultColorSpace, "encode")

DefaultDecode ==
    /\ pc = "ready"
    /\ Call(defaultColorSpace, "decode")

DefaultCmykEncode ==
    /\ pc = "ready"
    /\ Call(defaultCmykColorSpace, "encode")

Next ==
    \/ ScreenEncode
    \/ ScreenDecode
    \/ SaturatingEncode
    \/ SaturatingDecode
    \/ CmykEncode
    \/ CmykDecode
    \/ HsvEncode
    \/ HsvDecode
    \/ ChainEncode
    \/ ChainDecode
    \/ ReverseEncode
    \/ ReverseDecode
    \/ DefaultEncode
    \/ DefaultDecode
    \/ DefaultCmykEncode

Spec == Init /\ [][Next]_vars

---------------------------------------------------------------------------
(* Properties *)

\* 0 <= x <= 1 (false of NaN)
In01(x) == ~IsNaN(x) /\ ~Lt(x, Zero) /\ ~Gt(x, One)

Le(x, y) == ~IsNaN(x) /\ ~IsNaN(y) /\ ~Gt(x, y)

Returned(cs, m) == pc = "done" /\ space = cs /\ method = m

Reflective01(r) ==
    In01(r.cyan) /\ In01(r.magenta) /\ In01(r.yellow) /\ In01(r.key)

Emissive01(c) == In01(c.red) /\ In01(c.green) /\ In01(c.blue)

\* C1 as claimed: for every reflective colour r with cyan, magenta, yellow
\* and key in [0,1] and key < 1, decode(encode(r)) = r on all four
\* components.
C1_CmykRoundTrip ==
    (Returned(SimpleCmykColorSpace, "encode")
        /\ Reflective01(arg) /\ Lt(arg.key, One))
    => SimpleCmyk_decode(result) = arg

\* C1 amended: for every reflective colour r with cyan, magenta, yellow and
\* key in [0,1], key < 1 and at least one of cyan, magenta, yellow equal to
\* 0, decode(encode(r)) = r on all four components; for every r in [0,1]
\* with key < 1, decode(encode(r)) encodes to the same emissive colour as r.
C1_CmykRoundTripAmended ==
    (Returned(SimpleCmykColorSpace, "encode")
        /\ Reflective01(arg) /\ Lt(arg.key, One))
    => /\ min(arg.cyan, arg.magenta, arg.yellow) = Zero
            => SimpleCmyk_decode(result) = arg
       /\ SimpleCmyk_encode(SimpleCmyk_decode(result)) = result

C1_Witness ==
    /\ Returned(SimpleCmykColorSpace, "encode")
    /\ arg = [cyan |-> Half, magenta |-> Zero, yellow |-> One, key |-> Half]
    /\ result = [red |-> Rat(1, 4), green |-> Half, blue |-> Zero]
    /\ SimpleCmyk_decode(result) = arg

\* hue a and hue b are equal modulo 360
HueEquivalent(a, b) == Rem(Sub(a, b), Num(360)) = Zero

\* C2: for every HSV colour h with saturation in (0,1] and value in (0,1],
\* decode(encode(h)) returns the same saturation and value and a hue equal
\* to h.hue modulo 360.
C2_HsvRoundTrip ==
    (Returned(SimpleHsvColorSpace, "encode")
        /\ Gt(arg.saturation, Zero) /\ Le(arg.saturation, One)
        /\ Gt(arg.value, Zero) /\ Le(arg.value, One))
    => /\ SimpleHsv_decode(result).saturation = arg.saturation
       /\ SimpleHsv_decode(result).value = arg.value
       /\ HueEquivalent(SimpleHsv_decode(result).hue, arg.hue)

\* C3 as claimed: SaturatingColorSpace.encode returns its input unchanged
\* for every emissive colour whose three channels are all <= 1, channels
\* below 0 included.
C3_SaturatingIdentity ==
    (Returned(SaturatingColorSpace, "encode")
        /\ Le(arg.red, One) /\ Le(arg.green, One) /\ Le(arg.blue, One))
    => result = arg

\* C3 amended: SaturatingColorSpace.encode returns its input unchanged for
\* every emissive colour whose three channels all lie in [0,1]; when all
\* channels are <= 1, a channel below 0 is returned as 0 and every other
\* channel unchanged.
C3_SaturatingIdentityAmended ==
    (Returned(SaturatingColorSpace, "encode")
        /\ Le(arg.red, One) /\ Le(arg.green, One) /\ Le(arg.blue, One))
    => /\ Emissive01(arg) => result = arg
       /\ \A ch \in {"red", "green", "blue"} :
             result[ch] = IF Lt(arg[ch], Zero) THEN Zero ELSE arg[ch]

C3_Witness ==
    /\ Returned(SaturatingColorSpace, "encode")
    /\ arg = [red |-> One, green |-> Half, blue |-> Zero]
    /\ result = arg

\* over(x) = max(x - 1, 0)
Over(x) == IF Lt(Sub(x, One), Zero) THEN Zero ELSE Sub(x, One)

\* own - over(own) + 0.5*over(other1) + 0.5*over(other2), clamped to [0,1]
Redistributed(own, other1, other2) ==
    LET sum == Add(Sub(own, Over(own)),
                   Add(Mul(Half, Over(other1)), Mul(Half, Over(other2))))
    IN  IF Lt(sum, Zero) THEN Zero ELSE IF Lt(One, sum) THEN One ELSE sum

\* C4: SaturatingColorSpace.encode returns, in every channel,
\* clamp(own - over(own) + 0.5*over(other1) + 0.5*over(other2)); a channel
\* above 1 comes out as 1 when the other two are not above 1, and each of
\* those receives exactly half its excess (as far as it fits under 1);
\* encode({red:2, green:0, blue:0}) = {red:1, green:0.5, blue:0.5}.
C4_SaturatingRedistributes ==
    Returned(SaturatingColorSpace, "encode")
    => /\ result.red = Redistributed(arg.red, arg.green, arg.blue)
       /\ result.green = Redistributed(arg.green, arg.red, arg.blue)
       /\ result.blue = Redistributed(arg.blue, arg.red, arg.green)
       /\ (Gt(arg.red, One) /\ Emissive01([arg EXCEPT !.red = One]))
            => /\ result.red = One
               /\ Le(Add(arg.green, Mul(Half, Sub(arg.red, One))), One)
                    => result.green
                         = Add(arg.green, Mul(Half, Sub(arg.red, One)))
               /\ Le(Add(arg.blue, Mul(Half, Sub(arg.red, One))), One)
                    => result.blue
                         = Add(arg.blue, Mul(Half, Sub(arg.red, One)))
       /\ arg = [red |-> Num(2), green |-> Zero, blue |-> Zero]
            => result = [red |-> One, green |-> Half, blue |-> Half]

C4_Witness ==
    /\ Returned(SaturatingColorSpace, "encode")
    /\ arg = [red |-> Num(2), green |-> Zero, blue |-> Zero]
    /\ result = [red |-> One, green |-> Half, blue |-> Half]

\* cs is chain(chain(a, b), c) or chain(a, chain(b, c))
IsLeftChain(cs) == cs.kind = "chain" /\ cs.first.kind = "chain"

IsRightChain(cs) ==
    cs.kind = "chain" /\ cs.first.kind # "chain" /\ cs.second.kind = "chain"

\* the three spaces <<a, b, c>> of a chain of three
Stages(cs) ==
    IF IsLeftChain(cs)
    THEN <<cs.first.first, cs.first.second, cs.second>>
    ELSE <<cs.first, cs.second.first, cs.second.second>>

\* C5: for composable colour spaces a, b, c and every input,
\* chain(chain(a,b),c) and chain(a,chain(b,c)) return the same encode result
\* and the same decode result: encode is a.encode, then b.encode, then
\* c.encode; decode is c.decode, then b.decode, then a.decode.
C5_ChainAssociative ==
    (pc = "done" /\ (IsLeftChain(space) \/ IsRightChain(space)))
    => LET a == Stages(space)[1]
           b == Stages(space)[2]
           c == Stages(space)[3]
       IN  /\ method = "encode"
                => /\ result = Encode(c, Encode(b, Encode(a, arg)))
                   /\ result = Encode(LeftChain(a, b, c), arg)
                   /\ result = Encode(RightChain(a, b, c), arg)
           /\ method = "decode"
                => /\ result = Decode(a, Decode(b, Decode(c, arg)))
                   /\ result = Decode(LeftChain(a, b, c), arg)
                   /\ result = Decode(RightChain(a, b, c), arg)

\* an over-bright colour through chain(chain(saturating, screen), saturating):
\* the order of the stages shows in the result
C5_Witness ==
    /\ Returned(LeftChain(SaturatingColorSpace, DefaultScreenColorSpace,
                          SaturatingColorSpace), "encode")
    /\ arg = [red |-> Num(2), green |-> Zero, blue |-> Half]
    /\ result = Encode(RightChain(SaturatingColorSpace, DefaultScreenColorSpace,
                                  SaturatingColorSpace), arg)
    /\ result # Encode(LeftChain(DefaultScreenColorSpace, SaturatingColorSpace,
                                 SaturatingColorSpace), arg)

\* C6: reverse(cs).encode = cs.decode and reverse(cs).decode = cs.encode on
\* every input, and reverse(reverse(cs)) returns what cs returns, for encode
\* and for decode.
C6_ReverseInvolution ==
    (pc = "done" /\ space.kind = "reverse")
    => IF space.toReverse.kind = "reverse"
       THEN /\ method = "encode"
                 => result = Encode(space.toReverse.toReverse, arg)
            /\ method = "decode"
                 => result = Decode(space.toReverse.toReverse, arg)
       ELSE /\ method = "encode" => result = Decode(space.toReverse, arg)
            /\ method = "decode" => result = Encode(space.toReverse, arg)

C6_Witness ==
    /\ Returned(reverseColorSpace(reverseColorSpace(SimpleCmykColorSpace)),
                "encode")
    /\ arg = [cyan |-> Half, magenta |-> Zero, yellow |-> One, key |-> Half]
    /\ result = [red |-> Rat(1, 4), green |-> Half, blue |-> Zero]

\* C7: with the default gammas, for every emissive colour c with all
\* channels in [0,1], ScreenColorSpace decode(encode(c)) = c on every channel.
C7_ScreenRoundTrip ==
    (Returned(DefaultScreenColorSpace, "encode") /\ Emissive01(arg))
    => Screen_decode(DefaultScreenColorSpace, result) = arg

C7_Witness ==
    /\ Returned(DefaultScreenColorSpace, "encode")
    /\ arg = [red |-> Half, green |-> One, blue |-> Zero]
    /\ IsPow(result.red)
    /\ Screen_decode(DefaultScreenColorSpace, result) = arg

\* C8: for every hue h, negative hues and hues above 360 included, and every
\* saturation and value, SimpleHsvColorSpace.encode of hue h and of hue h+360
\* return the same emissive colour.
C8_HueCyclic ==
    Returned(SimpleHsvColorSpace, "encode")
    => result = SimpleHsv_encode([arg EXCEPT !.hue = Add(@, Num(360))])

\* r with each of its four components clamped to [0,1]
ClampedReflective(r) ==
    [cyan    |-> IF Lt(r.cyan, Zero) THEN Zero
                 ELSE IF Lt(One, r.cyan) THEN One ELSE r.cyan,
     magenta |-> IF Lt(r.magenta, Zero) THEN Zero
                 ELSE IF Lt(One, r.magenta) THEN One ELSE r.magenta,
     yellow  |-> IF Lt(r.yellow, Zero) THEN Zero
                 ELSE IF Lt(One, r.yellow) THEN One ELSE r.yellow,
     key     |-> IF Lt(r.key, Zero) THEN Zero
                 ELSE IF Lt(One, r.key) THEN One ELSE r.key]

\* C9: for every reflective colour r, components outside [0,1] included,
\* SimpleCmykColorSpace.encode(r) equals encode of r with its four components
\* clamped to [0,1], so every output channel lies in [0,1].
C9_CmykEncodeClamps ==
    Returned(SimpleCmykColorSpace, "encode")
    => /\ result = SimpleCmyk_encode(ClampedReflective(arg))
       /\ Emissive01(result)

\* C10: for every emissive input, channels below 0 or above 1 included,
\* every channel returned by ScreenColorSpace.encode, ScreenColorSpace.decode,
\* SaturatingColorSpace.encode and defaultColorSpace.encode lies in [0,1],
\* and a Screen-encoded channel whose input is >= 1 is exactly 1.
C10_ClampedOutputRange ==
    /\ (pc = "done"
          /\ \/ space = DefaultScreenColorSpace
             \/ space = SaturatingColorSpace /\ method = "encode"
             \/ space = defaultColorSpace /\ method = "encode")
       => Emissive01(result)
    /\ Returned(DefaultScreenColorSpace, "encode")
       => \A ch \in {"red", "green", "blue"} :
             Le(One, arg[ch]) => result[ch] = One

\* x clamped to [0,1]
Clamped(x) == IF Lt(x, Zero) THEN Zero ELSE IF Lt(One, x) THEN One ELSE x

\* the largest of the three clamped channels of the emissive colour c
MaxClamped(c) ==
    LET r == Clamped(c.red)
        g == Clamped(c.green)
        b == Clamped(c.blue)
    IN  IF Lt(r, g) THEN (IF Lt(g, b) THEN b ELSE g)
        ELSE (IF Lt(r, b) THEN b ELSE r)

\* no component of the colour c is NaN
Defined(c) == \A f \in DOMAIN c : ~IsNaN(c[f])

\* C11: decoding never divides by zero.  SimpleCmykColorSpace.decode returns
\* cyan = magenta = yellow = 0 with key = 1 when all clamped channels are 0,
\* and otherwise divides by 1 - key > 0; SimpleHsvColorSpace.decode returns
\* saturation 0, hue 0 and value 0 when cmax = 0, and otherwise divides by
\* cmax > 0.  No component returned is NaN.
C11_DecodeNeverDividesByZero ==
    /\ Returned(SimpleCmykColorSpace, "decode")
         => /\ Defined(result)
            /\ IF MaxClamped(arg) = Zero
               THEN result = [cyan |-> Zero, magenta |-> Zero,
                              yellow |-> Zero, key |-> One]
               ELSE /\ Gt(Sub(One, result.key), Zero)
                    /\ Sub(One, result.key) = MaxClamped(arg)
                    /\ result.cyan
                         = Sub(One, Div(Clamped(arg.red), MaxClamped(arg)))
                    /\ result.magenta
                         = Sub(One, Div(Clamped(arg.green), MaxClamped(arg)))
                    /\ result.yellow
                         = Sub(One, Div(Clamped(arg.blue), MaxClamped(arg)))
    /\ Returned(SimpleHsvColorSpace, "decode")
         => /\ Defined(result)
            /\ IF MaxClamped(arg) = Zero
               THEN result = [hue |-> Zero, saturation |-> Zero,
                              value |-> Zero]
               ELSE /\ Gt(result.value, Zero)
                    /\ result.value = MaxClamped(arg)

\* black with a channel below 0: every clamped channel is 0
C11_Witness ==
    /\ Returned(SimpleCmykColorSpace, "decode")
    /\ arg = [red |-> Rat(-1, 2), green |-> Zero, blue |-> Zero]
    /\ result = [cyan |-> Zero, magenta |-> Zero, yellow |-> Zero, key |-> One]

\* the emissive colour c with each channel clamped to [0,1]
ClampedEmissive(c) ==
    [red |-> Clamped(c.red), green |-> Clamped(c.green),
     blue |-> Clamped(c.blue)]

\* C12: for every emissive colour e, SimpleCmykColorSpace encode(decode(e))
\* equals e with each channel clamped to [0,1], and every component of
\* decode(e) (cyan, magenta, yellow, key) lies in [0,1].
C12_CmykReverseRoundTrip ==
    Returned(SimpleCmykColorSpace, "decode")
    => /\ SimpleCmyk_encode(result) = ClampedEmissive(arg)
       /\ Reflective01(result)

\* a colour with a channel above 1, one below 0 and one strictly inside
C12_Witness ==
    /\ Returned(SimpleCmykColorSpace, "decode")
    /\ arg = [red |-> Half, green |-> Num(2), blue |-> Rat(-1, 2)]
    /\ result = [cyan |-> Half, magenta |-> Zero, yellow |-> One, key |-> Zero]
    /\ SimpleCmyk_encode(result) = [red |-> Half, green |-> One, blue |-> Zero]

\* red + green + blue
Light(c) == Add(c.red, Add(c.green, c.blue))

\* own - over(own) + 0.5*over(other1) + 0.5*over(other2), before clamping
Unclamped(own, other1, other2) ==
    Add(Sub(own, Over(own)),
        Add(Mul(Half, Over(other1)), Mul(Half, Over(other2))))

\* some channel's redistributed value exceeds 1
Overflows(c) ==
    \/ Lt(One, Unclamped(c.red, c.green, c.blue))
    \/ Lt(One, Unclamped(c.green, c.red, c.blue))
    \/ Lt(One, Unclamped(c.blue, c.red, c.green))

\* C13: for every emissive colour with all channels >= 0,
\* SaturatingColorSpace.encode returns red + green + blue <= that of the
\* input, with equality exactly when no channel's redistributed value
\* own - over(own) + 0.5*(over of the other two) exceeds 1.
C13_SaturatingNeverCreatesLight ==
    (Returned(SaturatingColorSpace, "encode")
        /\ Le(Zero, arg.red) /\ Le(Zero, arg.green) /\ Le(Zero, arg.blue))
    => /\ Le(Light(result), Light(arg))
       /\ Light(result) = Light(arg) <=> ~Overflows(arg)

\* red's excess of 1 gives green 1.5, of which 0.5 is clamped away and not
\* passed on to blue
C13_Witness ==
    /\ Returned(SaturatingColorSpace, "encode")
    /\ arg = [red |-> Num(2), green |-> One, blue |-> Zero]
    /\ result = [red |-> One, green |-> One, blue |-> Half]
    /\ Overflows(arg)
    /\ Lt(Light(result), Light(arg))

Channels == {"red", "green", "blue"}

\* C14: for every HSV input (any hue, saturation, value), with
\* s = clamp(saturation) and v = clamp(value), all three channels
\* SimpleHsvColorSpace.encode returns lie in [0,1], the largest equals v and
\* the smallest equals v*(1-s); saturation 0 gives red = green = blue = v
\* whatever the hue.
C14_HsvEncodeRange ==
    Returned(SimpleHsvColorSpace, "encode")
    => LET s  == Clamped(arg.saturation)
           v  == Clamped(arg.value)
           lo == Mul(v, Sub(One, s))
       IN  /\ Emissive01(result)
           /\ \E ch \in Channels : result[ch] = v
           /\ \A ch \in Channels : Le(result[ch], v)
           /\ \E ch \in Channels : result[ch] = lo
           /\ \A ch \in Channels : Le(lo, result[ch])
           /\ s = Zero => result = [red |-> v, green |-> v, blue |-> v]

\* a negative hue with saturation and value strictly inside (0,1)
C14_Witness ==
    /\ Returned(SimpleHsvColorSpace, "encode")
    /\ arg = [hue |-> Num(-30), saturation |-> Half, value |-> Half]
    /\ result = [red |-> Half, green |-> Rat(3, 8), blue |-> Rat(1, 4)]

=============================================================================
